---- MODULE Spec2Model ----
(***************************************************************************)
(* Model of py_client.py, the Python client of the telemetry server:       *)
(* insert_telemetry, query_telemetry, check_for_fault and the __main__     *)
(* example flow.                                                           *)
(*                                                                         *)
(* Conventions.  Sensor values and thresholds are Python floats with two   *)
(* decimals in the source; they are written here in hundredths (0.8 is 80, *)
(* 0.95 is 95, 1.0 is 100), which keeps the order that `>` compares.       *)
(* Python's None is the tagged value None; a list is [kind |-> "list",     *)
(* items |-> <<...>>].  What requests.post / requests.get come back with   *)
(* is an "outcome": an HTTP response (status_code, text, body) or a        *)
(* transport fault, for which the call raises instead of returning.        *)
(***************************************************************************)
EXTENDS Integers, Sequences, FiniteSets, TLC

VARIABLES
    pc,        \* position of the running flow (the __main__ block, or a caller)
    requests,  \* every outbound HTTP request, in the order sent
    received,  \* what came back for each request (same index as requests)
    stdout,    \* every line printed, in order
    data,      \* __main__'s variable `data`: what query_telemetry returned
    raised,    \* the exception that left the flow uncaught, or NoException
    store,     \* the server's stored readings (the server is not in py_client.py)
    call       \* the last call made, with the arguments as the caller gave them

vars == <<pc, requests, received, stdout, data, raised, store, call>>

(***************************************************************************)
(* Bounds of the model.                                                    *)
(***************************************************************************)
MaxLen == 3      \* longest JSON array the server answers a query with

(***************************************************************************)
(* Values.                                                                 *)
(***************************************************************************)
BASE_URL == "http://localhost:8000"

None == [kind |-> "None"]
Unset == [kind |-> "unset"]
List(items) == [kind |-> "list", items |-> items]
NoException == "none"

SERIES_ID == "8f541ba4-c437-43ba-ba1d-5c946583fe54"
OTHER_ID == "00000000-0000-0000-0000-000000000000"
T1200 == "2024-08-28T12:00:00Z"
T1201 == "2024-08-28T12:01:00Z"
T1202 == "2024-08-28T12:02:00Z"
T1203 == "2024-08-28T12:03:00Z"

DEFAULT_FAULT_THRESHOLD == 95

(***************************************************************************)
(* The environment: what the HTTP library hands back.                      *)
(***************************************************************************)
StatusCodes == {200, 404, 500}

ReasonText(status_code) ==
    CASE status_code = 200 -> "OK"
      [] status_code = 404 -> "Not Found"
      [] OTHER -> "Internal Server Error"

\* A response body: a JSON array of entries, or text that is not JSON.
JsonArray(items) == [kind |-> "array", items |-> items]
NotJson == [kind |-> "malformed", items |-> <<>>]

Response(status_code, body) ==
    [kind |-> "response", status_code |-> status_code,
     text |-> ReasonText(status_code), body |-> body, exc |-> NoException]

\* Connection refused / DNS failure, and a timeout: no response object exists.
TransportFault(exc) ==
    [kind |-> "fault", status_code |-> 0, text |-> "", body |-> NotJson, exc |-> exc]

TransportFaults == {TransportFault("ConnectionError"), TransportFault("Timeout")}

\* Query Result Entries the server may answer with.
Entry(timestamp, value) == [timestamp |-> timestamp, value |-> value]

Entries ==
    {Entry(T1200, 80), Entry(T1201, 90), Entry(T1201, 95), Entry(T1202, 100)}

SeqsUpTo(S, n) == UNION {[1..k -> S] : k \in 0..n}

Arrays == SeqsUpTo(Entries, MaxLen)

PostOutcomes ==
    {Response(s, NotJson) : s \in StatusCodes} \cup TransportFaults

GetOutcomes ==
    {Response(200, JsonArray(a)) : a \in Arrays}
        \cup {Response(s, NotJson) : s \in StatusCodes}
        \cup TransportFaults

(***************************************************************************)
(* The server's side, as far as the end-to-end scenario needs it: a        *)
(* reading answered with 200 is stored; a query of a series over a window  *)
(* answers the stored readings of that series inside the window.           *)
(***************************************************************************)
Instant(timestamp) ==
    CASE timestamp = T1200 -> 0
      [] timestamp = T1201 -> 1
      [] timestamp = T1202 -> 2
      [] OTHER -> 3

ServerStore(stored, reading, outcome) ==
    IF outcome.kind = "response" /\ outcome.status_code = 200
    THEN Append(stored, reading)
    ELSE stored

InWindow(reading, timeseries_id, start_time, end_time) ==
    /\ reading.timeseries_id = timeseries_id
    /\ Instant(start_time) <= Instant(reading.timestamp)
    /\ Instant(reading.timestamp) <= Instant(end_time)

RECURSIVE ServerQuery(_, _, _, _)
ServerQuery(stored, timeseries_id, start_time, end_time) ==
    IF stored = <<>> THEN <<>>
    ELSE LET r == Head(stored)
             rest == ServerQuery(Tail(stored), timeseries_id, start_time, end_time)
         IN IF InWindow(r, timeseries_id, start_time, end_time)
            THEN <<Entry(r.timestamp, r.value)>> \o rest
            ELSE rest

(***************************************************************************)
(* The HTTP library: requests.post, requests.get, response.json().         *)
(***************************************************************************)
PostRequest(url, json) ==
    [method |-> "POST", url |-> url, json |-> json, params |-> None]

GetRequest(url, params) ==
    [method |-> "GET", url |-> url, json |-> None, params |-> params]

\* Variant: the request is sent again (a retry).
Send_Twice(sent, request) == Append(Append(sent, request), request)

\* The function sends its request once: no loop surrounds the call.
Send(sent, request) == Append(sent, request)

\* Variant: the transport fault is swallowed (a try/except around the call).
Raises_Never(outcome) == FALSE

\* A transport fault is raised by the library; neither function has a
\* try/except around its request, so the exception leaves the function.
Raises(outcome) == outcome.kind = "fault"

\* response.json(): the parsed body; it raises on a body that is not JSON.
JsonRaises(response) == response.body.kind = "malformed"
json(response) == List(response.body.items)

(***************************************************************************)
(* insert_telemetry                                                        *)
(***************************************************************************)
\* Variant: a None fc1_flag is left out of the body.
insert_data_DropsNoneFlag(sensor_name, timestamp, value, timeseries_id, fc1_flag) ==
    IF fc1_flag = None
    THEN [sensor_name |-> sensor_name,
          timestamp |-> timestamp,
          value |-> value,
          timeseries_id |-> timeseries_id]
    ELSE [sensor_name |-> sensor_name,
          timestamp |-> timestamp,
          value |-> value,
          fc1_flag |-> fc1_flag,
          timeseries_id |-> timeseries_id]

insert_data(sensor_name, timestamp, value, timeseries_id, fc1_flag) ==
    [sensor_name |-> sensor_name,
     timestamp |-> timestamp,
     value |-> value,
     fc1_flag |-> fc1_flag,
     timeseries_id |-> timeseries_id]

insert_print(d, response) ==
    IF response.status_code = 200
    THEN [line |-> "Data inserted successfully", data |-> d]
    ELSE [line |-> "Failed to insert data",
          status_code |-> response.status_code, text |-> response.text]

\* Variant: a status other than 200 raises (response.raise_for_status()).
insert_telemetry_RaiseForStatus(sensor_name, timestamp, value, timeseries_id, fc1_flag) ==
    LET url == BASE_URL \o "/telemetry"
        d == insert_data(sensor_name, timestamp, value, timeseries_id, fc1_flag)
    IN \E outcome \in PostOutcomes :
        /\ requests' = Send(requests, PostRequest(url, d))
        /\ received' = Append(received, outcome)
        /\ store' = ServerStore(store, d, outcome)
        /\ IF Raises(outcome)
           THEN /\ raised' = outcome.exc
                /\ stdout' = stdout
           ELSE IF outcome.status_code # 200
           THEN /\ raised' = "HTTPError"
                /\ stdout' = stdout
           ELSE /\ raised' = raised
                /\ stdout' = Append(stdout, insert_print(d, outcome))

insert_telemetry(sensor_name, timestamp, value, timeseries_id, fc1_flag) ==
    LET url == BASE_URL \o "/telemetry"
        d == insert_data(sensor_name, timestamp, value, timeseries_id, fc1_flag)
    IN \E outcome \in PostOutcomes :
        /\ requests' = Send(requests, PostRequest(url, d))
        /\ received' = Append(received, outcome)
        /\ store' = ServerStore(store, d, outcome)
        /\ IF Raises(outcome)
           THEN /\ raised' = outcome.exc
                /\ stdout' = stdout
           ELSE /\ raised' = raised
                /\ stdout' = Append(stdout, insert_print(d, outcome))

\* The call without fc1_flag: the parameter's default.
insert_telemetry_default(sensor_name, timestamp, value, timeseries_id) ==
    insert_telemetry(sensor_name, timestamp, value, timeseries_id, None)

(***************************************************************************)
(* query_telemetry.  Its return value lands in the caller's `data`.        *)
(***************************************************************************)
query_params(timeseries_id, start_time, end_time) ==
    [timeseries_id |-> timeseries_id,
     start_time |-> start_time,
     end_time |-> end_time]

query_print(response) ==
    IF response.status_code = 200
    THEN [line |-> "Query successful. Data received:"]
    ELSE [line |-> "Failed to query data",
          status_code |-> response.status_code, text |-> response.text]

Reverse(s) == [i \in 1..Len(s) |-> s[Len(s) + 1 - i]]

\* Variant: the parsed array is returned in another order.
query_return_Reordered(response) ==
    IF response.status_code = 200
    THEN List(Reverse(response.body.items))
    ELSE None

\* Variant: a failed query returns the empty list instead of None.
query_return_EmptyOnFailure(response) ==
    IF response.status_code = 200 THEN json(response) ELSE List(<<>>)

query_return(response) ==
    IF response.status_code = 200 THEN json(response) ELSE None

query_telemetry(timeseries_id, start_time, end_time) ==
    LET url == BASE_URL \o "/query_by_id"
        params == query_params(timeseries_id, start_time, end_time)
    IN \E outcome \in GetOutcomes :
        /\ requests' = Send(requests, GetRequest(url, params))
        /\ received' = Append(received, outcome)
        /\ store' = store
        /\ IF Raises(outcome)
           THEN /\ raised' = outcome.exc
                /\ stdout' = stdout
                /\ data' = data
           ELSE /\ stdout' = Append(stdout, query_print(outcome))
                /\ IF outcome.status_code = 200 /\ JsonRaises(outcome)
                   THEN /\ raised' = "JSONDecodeError"
                        /\ data' = data
                   ELSE /\ raised' = raised
                        /\ data' = query_return(outcome)

(***************************************************************************)
(* check_for_fault                                                         *)
(***************************************************************************)
\* Variant: the comparison is not strict.
Exceeds_OrEqual(value, fault_threshold) == value >= fault_threshold

Exceeds(value, fault_threshold) == value > fault_threshold

fault_print(entry) ==
    [line |-> "Fault detected", timestamp |-> entry.timestamp, value |-> entry.value]

\* Variant: the loop stops one entry short.
RECURSIVE check_loop_SkipsLast(_, _, _, _)
check_loop_SkipsLast(items, fault_threshold, i, acc) ==
    IF i >= Len(items) THEN acc
    ELSE check_loop_SkipsLast(items, fault_threshold, i + 1,
            IF items[i].value > fault_threshold
            THEN [fault_count |-> acc.fault_count + 1,
                  out |-> Append(acc.out, fault_print(items[i]))]
            ELSE acc)

\* The for loop from entry i on; acc is (fault_count, lines printed so far).
RECURSIVE check_loop(_, _, _, _)
check_loop(items, fault_threshold, i, acc) ==
    IF i > Len(items) THEN acc
    ELSE check_loop(items, fault_threshold, i + 1,
            IF Exceeds(items[i].value, fault_threshold)
            THEN [fault_count |-> acc.fault_count + 1,
                  out |-> Append(acc.out, fault_print(items[i]))]
            ELSE acc)

\* Variant: the closing line does not single out zero.
summary_print_AlwaysTotal(fault_count) ==
    [line |-> "Total faults detected", fault_count |-> fault_count]

summary_print(fault_count) ==
    IF fault_count = 0
    THEN [line |-> "No faults detected."]
    ELSE [line |-> "Total faults detected", fault_count |-> fault_count]

\* Iterating over None raises TypeError before anything is printed.
check_for_fault(d, fault_threshold) ==
    /\ UNCHANGED <<requests, received, store, data>>
    /\ IF d.kind # "list"
       THEN /\ raised' = "TypeError"
            /\ stdout' = stdout
       ELSE LET done == check_loop(d.items, fault_threshold, 1,
                                   [fault_count |-> 0, out |-> <<>>])
            IN /\ raised' = raised
               /\ stdout' = stdout \o done.out \o <<summary_print(done.fault_count)>>

check_for_fault_default(d) == check_for_fault(d, DEFAULT_FAULT_THRESHOLD)

(***************************************************************************)
(* The __main__ block.                                                     *)
(***************************************************************************)
\* Python truthiness of `data` in `if data:`.
Truthy(d) == d.kind = "list" /\ Len(d.items) > 0

\* Where the flow goes after a call: on, or out with the uncaught exception.
Continue(next) == IF raised' # NoException THEN "crashed" ELSE next

InsertCall(sensor_name, timestamp, value, timeseries_id, fc1_flag, given) ==
    [fn |-> "insert_telemetry", sensor_name |-> sensor_name,
     timestamp |-> timestamp, value |-> value, timeseries_id |-> timeseries_id,
     fc1_flag |-> fc1_flag, fc1_flag_given |-> given]

QueryCall(timeseries_id, start_time, end_time) ==
    [fn |-> "query_telemetry", timeseries_id |-> timeseries_id,
     start_time |-> start_time, end_time |-> end_time]

CheckCall(d, fault_threshold, given) ==
    [fn |-> "check_for_fault", data |-> d, fault_threshold |-> fault_threshold,
     fault_threshold_given |-> given]

NoCall == [fn |-> "none"]

Init ==
    /\ pc = "insert1"
    /\ requests = <<>>
    /\ received = <<>>
    /\ stdout = <<>>
    /\ data = Unset
    /\ raised = NoException
    /\ store = <<>>
    /\ call = NoCall

Main_Insert1 ==
    /\ pc = "insert1"
    /\ call' = InsertCall("Sa_FanSpeed", T1200, 80, SERIES_ID, None, FALSE)
    /\ insert_telemetry_default("Sa_FanSpeed", T1200, 80, SERIES_ID)
    /\ pc' = Continue("insert2")
    /\ UNCHANGED data

Main_Insert2 ==
    /\ pc = "insert2"
    /\ call' = InsertCall("Sa_FanSpeed", T1201, 90, SERIES_ID, None, FALSE)
    /\ insert_telemetry_default("Sa_FanSpeed", T1201, 90, SERIES_ID)
    /\ pc' = Continue("insert3")
    /\ UNCHANGED data

Main_Insert3 ==
    /\ pc = "insert3"
    /\ call' = InsertCall("Sa_FanSpeed", T1202, 100, SERIES_ID, None, FALSE)
    /\ insert_telemetry_default("Sa_FanSpeed", T1202, 100, SERIES_ID)
    /\ pc' = Continue("query")
    /\ UNCHANGED data

Main_Query ==
    /\ pc = "query"
    /\ call' = QueryCall(SERIES_ID, T1200, T1203)
    /\ query_telemetry(SERIES_ID, T1200, T1203)
    /\ pc' = Continue("check")

\* if data: check_for_fault(data, fault_threshold=0.95)
Main_Check ==
    /\ pc = "check"
    /\ IF Truthy(data)
       THEN /\ call' = CheckCall(data, 95, TRUE)
            /\ check_for_fault(data, 95)
            /\ pc' = Continue("done")
       ELSE /\ pc' = "done"
            /\ UNCHANGED <<requests, received, stdout, data, raised, store, call>>

Next ==
    \/ Main_Insert1
    \/ Main_Insert2
    \/ Main_Insert3
    \/ Main_Query
    \/ Main_Check

Spec == Init /\ [][Next]_vars

(***************************************************************************)
(* An arbitrary caller: one call of one of the three functions, with any   *)
(* arguments, from a fresh process.  The functions keep no state between   *)
(* calls (the module's only global is BASE_URL).                           *)
(***************************************************************************)
SensorNames == {"Sa_FanSpeed", "Oa_Temp"}
Timestamps == {T1200, T1201}
Values == {80, 100}
SeriesIds == {SERIES_ID, OTHER_ID}
Flag(v) == [kind |-> "bool", value |-> v]
Flags == {None, Flag(TRUE)}
Windows == {<<T1200, T1203>>, <<T1201, T1202>>}
Thresholds == {90, 95}
DataArgs == {List(a) : a \in Arrays} \cup {None}

InitAPI ==
    /\ pc = "caller"
    /\ requests = <<>>
    /\ received = <<>>
    /\ stdout = <<>>
    /\ data = Unset
    /\ raised = NoException
    /\ store = <<>>
    /\ call = NoCall

API_Insert ==
    /\ pc = "caller"
    /\ \E sensor_name \in SensorNames, timestamp \in Timestamps, value \in Values,
          timeseries_id \in SeriesIds, fc1_flag \in Flags :
        /\ call' = InsertCall(sensor_name, timestamp, value, timeseries_id,
                              fc1_flag, TRUE)
        /\ insert_telemetry(sensor_name, timestamp, value, timeseries_id, fc1_flag)
    /\ pc' = Continue("returned")
    /\ UNCHANGED data

API_InsertDefault ==
    /\ pc = "caller"
    /\ \E sensor_name \in SensorNames, timestamp \in Timestamps, value \in Values,
          timeseries_id \in SeriesIds :
        /\ call' = InsertCall(sensor_name, timestamp, value, timeseries_id,
                              None, FALSE)
        /\ insert_telemetry_default(sensor_name, timestamp, value, timeseries_id)
    /\ pc' = Continue("returned")
    /\ UNCHANGED data

API_Query ==
    /\ pc = "caller"
    /\ \E timeseries_id \in SeriesIds, w \in Windows :
        /\ call' = QueryCall(timeseries_id, w[1], w[2])
        /\ query_telemetry(timeseries_id, w[1], w[2])
    /\ pc' = Continue("returned")

API_Check ==
    /\ pc = "caller"
    /\ \E d \in DataArgs, fault_threshold \in Thresholds :
        /\ call' = CheckCall(d, fault_threshold, TRUE)
        /\ check_for_fault(d, fault_threshold)
    /\ pc' = Continue("returned")

API_CheckDefault ==
    /\ pc = "caller"
    /\ \E d \in DataArgs :
        /\ call' = CheckCall(d, DEFAULT_FAULT_THRESHOLD, FALSE)
        /\ check_for_fault_default(d)
    /\ pc' = Continue("returned")

NextAPI ==
    \/ API_Insert
    \/ API_InsertDefault
    \/ API_Query
    \/ API_Check
    \/ API_CheckDefault

SpecAPI == InitAPI /\ [][NextAPI]_vars

(***************************************************************************)
(* Properties.                                                             *)
(***************************************************************************)
Last(s) == s[Len(s)]

IsResponse(outcome) == outcome.kind = "response"
IsOk(outcome) == IsResponse(outcome) /\ outcome.status_code = 200
IsFailure(outcome) == IsResponse(outcome) /\ outcome.status_code # 200

\* C1: check_for_fault reports one fault for each entry whose value is
\* strictly greater than the threshold, in input order, and none for any
\* other entry (an entry equal to the threshold is not reported); the
\* closing line carries the number of entries with value > threshold.
C1_CountsStrictlyGreater ==
    (pc = "returned" /\ call.fn = "check_for_fault") =>
        LET items == call.data.items
            thr == call.fault_threshold
            n == Cardinality({i \in 1..Len(items) : items[i].value > thr})
        IN /\ Len(stdout) = n + 1
           /\ \A k \in 1..n : stdout[k].line = "Fault detected"
           /\ [k \in 1..n |-> Entry(stdout[k].timestamp, stdout[k].value)]
                = SelectSeq(items, LAMBDA e : e.value > thr)
           /\ \A k \in 1..n : stdout[k].value # thr
           /\ stdout[n + 1] =
                IF n = 0 THEN [line |-> "No faults detected."]
                ELSE [line |-> "Total faults detected", fault_count |-> n]

C1_Witness ==
    /\ pc = "returned"
    /\ call.fn = "check_for_fault"
    /\ \E i, j \in 1..Len(call.data.items) :
        /\ call.data.items[i].value = call.fault_threshold
        /\ call.data.items[j].value > call.fault_threshold

\* C2: a query answered with status 200 and a JSON array returns that array
\* as it is: same entries, same order, the empty array included.
C2_ReturnsArrayVerbatim ==
    (call.fn = "query_telemetry" /\ IsOk(received[1])
        /\ received[1].body.kind = "array") =>
        /\ pc = "returned"
        /\ raised = NoException
        /\ data.kind = "list"
        /\ data.items = received[1].body.items

C2_Witness ==
    /\ call.fn = "query_telemetry"
    /\ pc = "returned"
    /\ data.kind = "list"
    /\ Len(data.items) = 3
    /\ data.items[1].value > data.items[2].value
    /\ data.items[2] = data.items[3]

\* C3: a query answered with a status other than 200 returns None without
\* raising, and the __main__ flow then ends without calling check_for_fault.
C3_FailedQueryReturnsNone ==
    (Len(received) = 4 /\ IsFailure(received[4])) =>
        /\ data = None
        /\ raised = NoException
        /\ pc \in {"check", "done"}
        /\ call.fn = "query_telemetry"
        /\ Last(stdout).line = "Failed to query data"
        /\ Last(stdout).status_code = received[4].status_code

C3_Witness ==
    /\ pc = "done"
    /\ Len(received) = 4
    /\ IsFailure(received[4])
    /\ data = None

NextAfterInsert(i) ==
    CASE i = 1 -> "insert2"
      [] i = 2 -> "insert3"
      [] OTHER -> "query"

\* C4: an insert answered with a status other than 200 does not raise: it
\* prints the failure with the status code and returns, and the __main__
\* flow goes on to its next call; a flow with a failed insert that reaches
\* its end has sent all three inserts and the query.
C4_FailedInsertContinues ==
    /\ \A i \in 1..Len(received) :
        (i <= 3 /\ IsFailure(received[i])) =>
            /\ Len(stdout) >= i
            /\ stdout[i].line = "Failed to insert data"
            /\ stdout[i].status_code = received[i].status_code
            /\ (i = Len(received)) =>
                (raised = NoException /\ pc = NextAfterInsert(i))
    /\ (pc \in {"check", "done"}) =>
            /\ Len(requests) = 4
            /\ requests[4].method = "GET"

C4_Witness ==
    /\ pc = "done"
    /\ IsFailure(received[1]) /\ received[1].status_code = 404
    /\ IsFailure(received[2]) /\ received[2].status_code = 500
    /\ IsOk(received[3])
    /\ IsOk(received[4])

InsertKeys == {"sensor_name", "timestamp", "value", "fc1_flag", "timeseries_id"}

\* C5: the body insert_telemetry posts has exactly the five keys
\* sensor_name, timestamp, value, fc1_flag, timeseries_id, each with the
\* caller's argument; with fc1_flag omitted the key is there, with None.
C5_BodyHasFiveFields ==
    (call.fn = "insert_telemetry") =>
        /\ Len(requests) = 1
        /\ requests[1].method = "POST"
        /\ DOMAIN requests[1].json = InsertKeys
        /\ requests[1].json.sensor_name = call.sensor_name
        /\ requests[1].json.timestamp = call.timestamp
        /\ requests[1].json.value = call.value
        /\ requests[1].json.timeseries_id = call.timeseries_id
        /\ requests[1].json.fc1_flag =
                IF call.fc1_flag_given THEN call.fc1_flag ELSE None

C5_Witness ==
    /\ call.fn = "insert_telemetry"
    /\ ~call.fc1_flag_given
    /\ Len(requests) = 1
    /\ requests[1].json.fc1_flag = None
    /\ requests[1].json.sensor_name = "Oa_Temp"

\* C6: check_for_fault on the empty list returns without raising and prints
\* "No faults detected." and nothing else.
C6_EmptyYieldsNoFaults ==
    (call.fn = "check_for_fault" /\ call.data = List(<<>>)) =>
        /\ pc = "returned"
        /\ raised = NoException
        /\ stdout = <<[line |-> "No faults detected."]>>

C6_Witness ==
    /\ call.fn = "check_for_fault"
    /\ call.data = List(<<>>)
    /\ pc = "returned"

\* The server of the end-to-end scenario: every insert answered 200, and the
\* query answered 200 with the stored readings of the series in the window.
IdealServerRun ==
    /\ Len(received) = 4
    /\ \A i \in 1..3 : IsOk(received[i])
    /\ IsOk(received[4])
    /\ received[4].body =
            JsonArray(ServerQuery(store, SERIES_ID, T1200, T1203))

MainReading(timestamp, value) ==
    insert_data("Sa_FanSpeed", timestamp, value, SERIES_ID, None)

\* C7: against that server the __main__ flow posts the readings 0.8, 0.9
\* and 1.0, then sends the query, then runs the detection, which reports
\* exactly one fault, the reading with value 1.0.
C7_EndToEndOneFault ==
    (pc = "done" /\ IdealServerRun) =>
        /\ requests =
            << PostRequest(BASE_URL \o "/telemetry", MainReading(T1200, 80)),
               PostRequest(BASE_URL \o "/telemetry", MainReading(T1201, 90)),
               PostRequest(BASE_URL \o "/telemetry", MainReading(T1202, 100)),
               GetRequest(BASE_URL \o "/query_by_id",
                          query_params(SERIES_ID, T1200, T1203)) >>
        /\ stdout =
            << [line |-> "Data inserted successfully", data |-> MainReading(T1200, 80)],
               [line |-> "Data inserted successfully", data |-> MainReading(T1201, 90)],
               [line |-> "Data inserted successfully", data |-> MainReading(T1202, 100)],
               [line |-> "Query successful. Data received:"],
               [line |-> "Fault detected", timestamp |-> T1202, value |-> 100],
               [line |-> "Total faults detected", fault_count |-> 1] >>
        /\ raised = NoException

C7_Witness ==
    /\ pc = "done"
    /\ IdealServerRun
    /\ Len(data.items) = 3

\* C8: in the __main__ flow, whenever the query returned a list with status
\* 200 (the empty list included) the detection runs and prints its closing
\* line; it is skipped only when the query returned None.
C8_DetectionRunsOnEveryList ==
    (pc = "done" /\ data.kind = "list") =>
        /\ call.fn = "check_for_fault"
        /\ Last(stdout).line \in {"No faults detected.", "Total faults detected"}

\* C9: a transport fault is not caught: the exception leaves the flow at
\* once, so the faulted request is the last one sent, nothing is printed for
\* it, it is not turned into a failure report or into None, and no
\* detection runs.
C9_TransportFaultIsFatal ==
    \A i \in 1..Len(received) :
        (received[i].kind = "fault") =>
            /\ i = Len(received)
            /\ Len(requests) = i
            /\ pc = "crashed"
            /\ raised = received[i].exc
            /\ Len(stdout) = i - 1
            /\ data = Unset
            /\ call.fn # "check_for_fault"

C9_Witness ==
    /\ pc = "crashed"
    /\ Len(received) = 2
    /\ received[2].kind = "fault"
    /\ IsFailure(received[1])

ExpectedRequest(i) ==
    IF i <= 3
    THEN [method |-> "POST", url |-> "http://localhost:8000/telemetry"]
    ELSE [method |-> "GET", url |-> "http://localhost:8000/query_by_id"]

\* C10: every call of insert_telemetry or query_telemetry sends exactly one
\* request whatever comes back, check_for_fault sends none, and the __main__
\* flow sends at most four: three POST /telemetry, then one GET /query_by_id.
C10_OneRequestPerCall ==
    /\ [][Len(requests') = Len(requests)
            + (IF pc \in {"insert1", "insert2", "insert3", "query"}
               THEN 1 ELSE 0)]_vars
    /\ [](/\ Len(requests) <= 4
          /\ Len(requests) = Len(received)
          /\ \A i \in 1..Len(requests) :
                /\ requests[i].method = ExpectedRequest(i).method
                /\ requests[i].url = ExpectedRequest(i).url)

C10_Witness ==
    /\ pc = "done"
    /\ Len(requests) = 4
    /\ IsFailure(received[2])
    /\ IsFailure(received[4])

====
